---- MODULE Spec2Model ----
(***************************************************************************)
(* The plugin command bridge of zellij-server (plugins/zellij_exports.rs): *)
(* one plugin instance issues commands through host_run_plugin_command;    *)
(* the host decodes each command, dispatches it to its handler, and the    *)
(* handler mutates the subscription registry, sends instructions on the    *)
(* host channels, hands actions to the action router, writes replies to    *)
(* the guest, spawns processes or spawns timer threads.                    *)
(***************************************************************************)
EXTENDS Integers, Sequences, FiniteSets

(***************************************************************************)
(* Bounds of the model.                                                    *)
(***************************************************************************)
\* guest calls of one run
MaxCalls == 2
\* clock ticks a timer thread may be observed for
MaxTime == 2
\* largest delay a guest asks for, in half ticks
MaxSecs == 2

(***************************************************************************)
(* Values.                                                                 *)
(***************************************************************************)
\* Option<T>: None is the empty sequence, Some(x) the sequence of x alone
None == <<>>
Some(x) == <<x>>

EventTypes == {"Key", "Timer"}

\* process::id() of the host
ZellijPid == 4242

\* consts::VERSION
VERSION == "CARGO_PKG_VERSION"

\* The plugin instances the model is run for: PluginEnv (plugin_map.rs) as
\* far as this file reads it.  run is the plugin's placement
\* (PluginType::Pane(Some(tab)), Pane(None) or Headless); to_plugin is
\* senders.to_plugin, an Option; default_shell is an Option<TerminalAction>;
\* default_layout is the Layout the plugin was instantiated with.
PluginEnvs ==
    { [plugin_id |-> 7, client_id |-> 3, name |-> "plugin-a",
       allow_exec_host_cmd |-> TRUE, run |-> [kind |-> "Pane", tab |-> Some(0)],
       to_plugin |-> "Some",
       default_shell |-> Some([kind |-> "RunCommand", command |-> "sh", cwd |-> None]),
       default_layout |-> "default"],
      [plugin_id |-> 7, client_id |-> 3, name |-> "plugin-b",
       allow_exec_host_cmd |-> FALSE, run |-> [kind |-> "Pane", tab |-> None],
       to_plugin |-> "Some",
       default_shell |-> None,
       default_layout |-> "default"],
      [plugin_id |-> 7, client_id |-> 3, name |-> "plugin-c",
       allow_exec_host_cmd |-> FALSE, run |-> [kind |-> "Headless", tab |-> None],
       to_plugin |-> "None",
       default_shell |-> Some([kind |-> "OpenFile", command |-> "vi", cwd |-> None]),
       default_layout |-> "compact"] }

(***************************************************************************)
(* The state a handler works on, as one record w: the registry, the host   *)
(* channels, and what the call has done so far (actions handed to the      *)
(* router, replies written to the guest, processes and threads spawned,    *)
(* log lines), with the Result the handler returns.                        *)
(***************************************************************************)
Ok == "Ok"
Err == "Err"
Panic == "Panic"

\* a line of the host's log: its level, its message and what the message names
LogEntry(level, msg, detail) == [level |-> level, msg |-> msg, detail |-> detail]

\* a handler returning Err(why)
Fail(w, why) == [w EXCEPT !.result = Err, !.error = why]

\* FatalError::non_fatal on a Result, after with_context(context): an Err is
\* logged at error level and dropped
non_fatal(w, context) ==
    IF w.result = Err
    THEN [w EXCEPT !.result = Ok, !.error = "",
                   !.log = Append(@, LogEntry("error", context, w.error))]
    ELSE w

\* env.subscriptions.lock().to_anyhow(): the thread holds the registry's
\* guard, or gets an Err when the mutex is poisoned
lock(w, lock_ok) ==
    IF lock_ok
    THEN [w EXCEPT !.lock_held = TRUE, !.locks = @ + 1]
    ELSE Fail(w, "poisoned lock")

\* the guard is a temporary of the statement that locked: it is dropped at
\* the statement's end
drop_guard(w) == [w EXCEPT !.lock_held = FALSE]

\* the thread sends on a channel, routes an action or writes to the guest:
\* counted when it does so holding the registry's guard
while_locked(w) == [w EXCEPT !.under_lock = IF w.lock_held THEN @ + 1 ELSE @]

\* a channel that hands a new instruction over ahead of the waiting ones,
\* where an mpsc channel queues it behind them
send_to_plugin_first(env, w, instruction) ==
    IF env.to_plugin = "None" \/ w.to_plugin_closed
    THEN Fail(while_locked(w), "failed to send message to plugin")
    ELSE [while_locked(w) EXCEPT !.to_plugin = <<instruction>> \o @,
                                 !.registry_at_send = Append(@, w.subscriptions)]

\* ThreadSenders::send_to_plugin: fails when the sender is missing or the
\* receiving end is gone; w.registry_at_send notes the registry as it is
\* when the instruction is put on the channel
send_to_plugin(env, w, instruction) ==
    IF env.to_plugin = "None" \/ w.to_plugin_closed
    THEN Fail(while_locked(w), "failed to send message to plugin")
    ELSE [while_locked(w) EXCEPT !.to_plugin = Append(@, instruction),
                                 !.registry_at_send = Append(@, w.subscriptions)]

\* ThreadSenders::send_to_screen; screen_ok is whether the channel takes
\* the instruction
send_to_screen(env, w, instruction, screen_ok) ==
    IF ~screen_ok
    THEN Fail(while_locked(w), "failed to send message to screen")
    ELSE [while_locked(w) EXCEPT !.to_screen = Append(@, instruction)]

\* a registry overwritten with the keys given, where the code joins them in
extend_replacing(set, event_list) == event_list

\* HashSet::extend
extend(set, event_list) == set \cup event_list

\* a retain with the closure's negation lost: the keys given are the ones kept
retain_in(set, event_list) == {k \in set : k \in event_list}

\* HashSet::retain(|k| !event_list.contains(k))
retain_not_in(set, event_list) == {k \in set : k \notin event_list}

\* a subscribe that tells the host the keys that are new to the registry,
\* where the code tells it the keys of the command
subscribe_delta(env, w, event_list, lock_ok) ==
    IF ~lock_ok
    THEN Fail(w, "poisoned lock")
    ELSE send_to_plugin(env,
            [w EXCEPT !.subscriptions = extend(@, event_list)],
            [tag |-> "PluginSubscribedToEvents", plugin_id |-> env.plugin_id,
             client_id |-> env.client_id, data |-> event_list \ w.subscriptions])

\* an unsubscribe that clears the registry, where the code filters it
unsubscribe_clearing(env, w, event_list, lock_ok) ==
    IF ~lock_ok
    THEN Fail(w, "poisoned lock")
    ELSE [w EXCEPT !.subscriptions = {}]

\* a subscribe that keeps the guard to its end, the send included, where
\* the code drops it with the statement that extends the set
subscribe_holding(env, w, event_list, lock_ok) ==
    LET guard == lock(w, lock_ok)
    IN  IF guard.result = Err
        THEN guard
        ELSE drop_guard(
                send_to_plugin(env,
                    [guard EXCEPT !.subscriptions = extend(@, event_list)],
                    [tag |-> "PluginSubscribedToEvents", plugin_id |-> env.plugin_id,
                     client_id |-> env.client_id, data |-> event_list]))

\* a subscribe that notifies the host first and extends the set afterwards
subscribe_notifying_first(env, w, event_list, lock_ok) ==
    LET sent == send_to_plugin(env, w,
                    [tag |-> "PluginSubscribedToEvents", plugin_id |-> env.plugin_id,
                     client_id |-> env.client_id, data |-> event_list])
        guard == lock(sent, lock_ok)
    IN  IF sent.result = Err
        THEN sent
        ELSE IF guard.result = Err
        THEN guard
        ELSE drop_guard([guard EXCEPT !.subscriptions = extend(@, event_list)])

\* lock_ok is whether env.subscriptions.lock() returns the guard (the mutex
\* is not poisoned); the first statement locks, extends the set and drops
\* the guard, the second sends
subscribe(env, w, event_list, lock_ok) ==
    LET guard == lock(w, lock_ok)
    IN  IF guard.result = Err
        THEN guard
        ELSE send_to_plugin(env,
                drop_guard([guard EXCEPT !.subscriptions = extend(@, event_list)]),
                [tag |-> "PluginSubscribedToEvents", plugin_id |-> env.plugin_id,
                 client_id |-> env.client_id, data |-> event_list])

\* an unsubscribe that takes the lock and leaves the set as it is
unsubscribe_keeping(env, w, event_list, lock_ok) ==
    LET guard == lock(w, lock_ok)
    IN  IF guard.result = Err
        THEN guard
        ELSE drop_guard(guard)

\* one statement: lock, retain, drop the guard
unsubscribe(env, w, event_list, lock_ok) ==
    LET guard == lock(w, lock_ok)
    IN  IF guard.result = Err
        THEN guard
        ELSE drop_guard([guard EXCEPT !.subscriptions = retain_not_in(@, event_list)])

\* a set_selectable that sends for every plugin in a pane, the tab known or
\* not, where the code sends for a pane with a tab alone
set_selectable_any_pane(env, w, selectable, screen_ok) ==
    IF env.run.kind = "Pane"
    THEN non_fatal(
            send_to_screen(env, w,
                [tag |-> "SetSelectable", pane_id |-> <<"Plugin", env.plugin_id>>,
                 data |-> <<selectable, IF env.run.tab = None THEN 0 ELSE env.run.tab[1]>>],
                screen_ok),
            <<"failed to set plugin selectable from plugin", env.name>>)
    ELSE [w EXCEPT !.log = Append(@,
            LogEntry("debug", <<"Calling method 'set_selectable' does nothing for headless plugins">>, ""))]

set_selectable(env, w, selectable, screen_ok) ==
    IF env.run.kind = "Pane" /\ env.run.tab # None
    THEN non_fatal(
            send_to_screen(env, w,
                [tag |-> "SetSelectable", pane_id |-> <<"Plugin", env.plugin_id>>,
                 data |-> <<selectable, env.run.tab[1]>>], screen_ok),
            <<"failed to set plugin selectable from plugin", env.name>>)
    ELSE [w EXCEPT !.log = Append(@,
            LogEntry("debug", <<"Calling method 'set_selectable' does nothing for headless plugins">>, ""))]

\* wasi_write_string: the text, "\r" and writeln's "\n" go to the guest's stdin
wasi_write_string(w, buf, stdin_ok) ==
    IF stdin_ok
    THEN [while_locked(w) EXCEPT !.guest_stdin = Append(@, <<buf, "\r", "\n">>)]
    ELSE Fail(while_locked(w), "failed to write string to WASI env")

\* wasi_write_object: serde_json::to_string of the object, then wasi_write_string
wasi_write_object(w, object, stdin_ok) ==
    wasi_write_string(w, <<"json", object>>, stdin_ok)

\* a get_plugin_ids that also tells the host the ids, on the plugin channel
get_plugin_ids_announcing(env, w, stdin_ok) ==
    send_to_plugin(env,
        non_fatal(
            wasi_write_object(w,
                [plugin_id |-> env.plugin_id, zellij_pid |-> ZellijPid], stdin_ok),
            <<"failed to query plugin IDs from host for plugin", env.name>>),
        [tag |-> "PluginIds", plugin_id |-> env.plugin_id, client_id |-> env.client_id,
         data |-> ZellijPid])

get_plugin_ids(env, w, stdin_ok) ==
    non_fatal(
        wasi_write_object(w,
            [plugin_id |-> env.plugin_id, zellij_pid |-> ZellijPid], stdin_ok),
        <<"failed to query plugin IDs from host for plugin", env.name>>)

get_zellij_version(env, w, stdin_ok) ==
    non_fatal(
        wasi_write_object(w, [version |-> VERSION], stdin_ok),
        <<"failed to request zellij version from host for plugin", env.name>>)

\* an apply_action! that routes every action as the first client, where the
\* code routes it as the client of the plugin
apply_action_as_first_client(env, w, action, error_message, route_ok) ==
    LET routed == [while_locked(w) EXCEPT !.routed = Append(@,
                      [action |-> action, client_id |-> 1,
                       default_shell |-> env.default_shell,
                       default_layout |-> env.default_layout])]
    IN  IF route_ok
        THEN routed
        ELSE [routed EXCEPT !.log = Append(@, LogEntry("error", error_message, "route_action"))]

\* the macro apply_action!: route_action(action, client_id, senders, ...)
\* gets the action; its Err is logged with the handler's message
apply_action(env, w, action, error_message, route_ok) ==
    LET routed == [while_locked(w) EXCEPT !.routed = Append(@,
                      [action |-> action, client_id |-> env.client_id,
                       default_shell |-> env.default_shell,
                       default_layout |-> env.default_layout])]
    IN  IF route_ok
        THEN routed
        ELSE [routed EXCEPT !.log = Append(@, LogEntry("error", error_message, "route_action"))]

Action(tag, args) == [tag |-> tag, args |-> args]

\* an open_file that opens the file at its top, where the code passes the
\* line number on
open_file_at_top(env, w, file_to_open, route_ok) ==
    apply_action(env, w,
        Action("EditFile", <<file_to_open.path, None, file_to_open.cwd, None, FALSE>>),
        <<"failed to open file in plugin", env.name>>, route_ok)

open_file(env, w, file_to_open, route_ok) ==
    apply_action(env, w,
        Action("EditFile", <<file_to_open.path, file_to_open.line_number,
                             file_to_open.cwd, None, FALSE>>),
        <<"failed to open file in plugin", env.name>>, route_ok)

open_file_floating(env, w, file_to_open, route_ok) ==
    apply_action(env, w,
        Action("EditFile", <<file_to_open.path, file_to_open.line_number,
                             file_to_open.cwd, None, TRUE>>),
        <<"failed to open file in plugin", env.name>>, route_ok)

\* env.default_shell or RunCommand::default(), with change_cwd(cwd); a
\* RunCommand becomes Some(RunCommandAction), any other TerminalAction None
default_shell_action(env, cwd) ==
    LET default_shell ==
            IF env.default_shell = None
            THEN [kind |-> "RunCommand", command |-> "", cwd |-> None]
            ELSE env.default_shell[1]
        changed == [default_shell EXCEPT !.cwd = Some(cwd)]
    IN  IF changed.kind = "RunCommand"
        THEN Some([command |-> changed.command, args |-> <<>>, cwd |-> changed.cwd,
                   direction |-> None, hold_on_close |-> FALSE, hold_on_start |-> FALSE])
        ELSE None

\* an open_terminal that changes the cwd of the plugin's default shell
\* itself, where the code changes the cwd of a clone
open_terminal_in_place(env, w, cwd, route_ok) ==
    apply_action(env,
        [w EXCEPT !.plugin_env.default_shell =
            IF @ = None THEN @ ELSE Some([@[1] EXCEPT !.cwd = Some(cwd)])],
        Action("NewTiledPane", <<None, default_shell_action(env, cwd), None>>),
        <<"failed to open file in plugin", env.name>>, route_ok)

open_terminal(env, w, cwd, route_ok) ==
    apply_action(env, w,
        Action("NewTiledPane", <<None, default_shell_action(env, cwd), None>>),
        <<"failed to open file in plugin", env.name>>, route_ok)

open_terminal_floating(env, w, cwd, route_ok) ==
    apply_action(env, w,
        Action("NewFloatingPane", <<default_shell_action(env, cwd), None>>),
        <<"failed to open file in plugin", env.name>>, route_ok)

run_command_action(command_to_run) ==
    [command |-> command_to_run.path, args |-> command_to_run.args,
     cwd |-> command_to_run.cwd, direction |-> None,
     hold_on_close |-> TRUE, hold_on_start |-> FALSE]

open_command_pane(env, w, command_to_run, route_ok) ==
    apply_action(env, w,
        Action("NewTiledPane", <<None, Some(run_command_action(command_to_run)), None>>),
        <<"failed to open command in plugin", env.name>>, route_ok)

open_command_pane_floating(env, w, command_to_run, route_ok) ==
    apply_action(env, w,
        Action("NewFloatingPane", <<Some(run_command_action(command_to_run)), None>>),
        <<"failed to open command in plugin", env.name>>, route_ok)

switch_tab_to(env, w, tab_idx, screen_ok) ==
    non_fatal(
        send_to_screen(env, w,
            [tag |-> "GoToTab", pane_id |-> None,
             data |-> <<tab_idx, Some(env.client_id)>>], screen_ok),
        <<"failed to switch to tab from plugin", env.name>>)

\* a set_timeout whose timer takes the place of the plugin's waiting timers,
\* where the code spawns one more thread
set_timeout_replacing(env, w, secs) ==
    [w EXCEPT !.timers =
        <<[secs |-> secs, sender |-> env.to_plugin,
           update_target |-> Some(env.plugin_id), client_id |-> env.client_id,
           plugin_name |-> env.name, pc |-> "spawned", clock |-> 0, elapsed_time |-> 0,
           error |-> ""]>>]

\* set_timeout up to thread::spawn: the thread gets a clone of the sender,
\* the plugin id, the client id and the plugin's name, and has not run yet
set_timeout(env, w, secs) ==
    [w EXCEPT !.timers = Append(@,
        [secs |-> secs, sender |-> env.to_plugin,
         update_target |-> Some(env.plugin_id), client_id |-> env.client_id,
         plugin_name |-> env.name, pc |-> "spawned", clock |-> 0, elapsed_time |-> 0,
         error |-> ""])]

exec_cmd(env, w, command_line, spawn_ok) ==
    IF Len(command_line) = 0
    THEN \* command_line.remove(0) panics on an empty vector
         [w EXCEPT !.result = Panic]
    ELSE LET command == Head(command_line)
             args == Tail(command_line)
         IN  IF ~env.allow_exec_host_cmd
             THEN [w EXCEPT !.log = Append(@,
                     LogEntry("warn", <<"This plugin isn't allow to run command in host side, skip running this command">>,
                              <<command, args>>))]
             ELSE IF spawn_ok
                  THEN [w EXCEPT !.spawned = Append(@, [command |-> command, args |-> args])]
                  ELSE [w EXCEPT !.log = Append(@,
                          LogEntry("error", <<"failed to execute command on host for plugin", env.name>>, "spawn"))]

\* a post_message_to that sends the message to the plugin itself when it
\* names no worker, where the code returns an Err
post_message_to_or_plugin(env, w, plugin_message) ==
    IF plugin_message.worker_name = None
    THEN send_to_plugin(env, w,
            [tag |-> "PostMessageToPlugin", plugin_id |-> env.plugin_id,
             client_id |-> env.client_id,
             data |-> <<plugin_message.name, plugin_message.payload>>])
    ELSE send_to_plugin(env, w,
            [tag |-> "PostMessagesToPluginWorker", plugin_id |-> env.plugin_id,
             client_id |-> env.client_id,
             data |-> <<plugin_message.worker_name[1],
                        <<<<plugin_message.name, plugin_message.payload>>>>>>])

post_message_to(env, w, plugin_message) ==
    IF plugin_message.worker_name = None
    THEN Fail(w, "Worker name not specified in message to worker")
    ELSE send_to_plugin(env, w,
            [tag |-> "PostMessagesToPluginWorker", plugin_id |-> env.plugin_id,
             client_id |-> env.client_id,
             data |-> <<plugin_message.worker_name[1],
                        <<<<plugin_message.name, plugin_message.payload>>>>>>])

post_message_to_plugin(env, w, plugin_message) ==
    IF plugin_message.worker_name # None
    THEN Fail(w, "Worker name should not be specified in message to plugin")
    ELSE send_to_plugin(env, w,
            [tag |-> "PostMessageToPlugin", plugin_id |-> env.plugin_id,
             client_id |-> env.client_id,
             data |-> <<plugin_message.name, plugin_message.payload>>])

hide_self(env, w, screen_ok) ==
    send_to_screen(env, w,
        [tag |-> "SuppressPane", pane_id |-> <<"Plugin", env.plugin_id>>,
         data |-> <<env.client_id>>], screen_ok)

show_self(env, w, should_float_if_hidden, route_ok) ==
    apply_action(env, w,
        Action("FocusPluginPaneWithId", <<env.plugin_id, should_float_if_hidden>>),
        <<"Failed to show self for plugin">>, route_ok)

switch_to_mode(env, w, input_mode, route_ok) ==
    apply_action(env, w, Action("SwitchToMode", <<input_mode>>),
        <<"failed to switch to mode in plugin", env.name>>, route_ok)

\* Layout::from_str on the text of a layout: Err, or the layout's tabs
\* (name, tiled panes, floating panes), template and swap layouts
Layout_from_str(raw_layout) ==
    IF raw_layout.parses
    THEN [result |-> Ok, tabs |-> raw_layout.tabs, template |-> raw_layout.template,
          swap_tiled_layouts |-> raw_layout.swap_tiled_layouts,
          swap_floating_layouts |-> raw_layout.swap_floating_layouts]
    ELSE [result |-> Err]

\* the new_tabs_with_layout loops that fill tabs_to_open
RECURSIVE tab_actions(_, _)
tab_actions(layout, tabs) ==
    IF tabs = <<>>
    THEN <<>>
    ELSE <<Action("NewTab", <<Some(Head(tabs).tiled), Head(tabs).floating,
                              Some(layout.swap_tiled_layouts),
                              Some(layout.swap_floating_layouts), Head(tabs).name>>)>>
         \o tab_actions(layout, Tail(tabs))

tabs_to_open(layout) ==
    IF layout.tabs = <<>>
    THEN <<Action("NewTab",
              <<IF layout.template = None THEN None ELSE Some(layout.template[1].tiled),
                IF layout.template = None THEN <<>> ELSE layout.template[1].floating,
                Some(layout.swap_tiled_layouts), Some(layout.swap_floating_layouts),
                None>>)>>
    ELSE tab_actions(layout, layout.tabs)

\* a loop that ends at the first action the router refuses, where the code
\* logs the error and goes on
RECURSIVE apply_actions_until_error(_, _, _, _)
apply_actions_until_error(env, w, actions, route_oks) ==
    IF actions = <<>>
    THEN w
    ELSE IF ~Head(route_oks)
    THEN apply_action(env, w, Head(actions), <<"Failed to create layout tab">>, FALSE)
    ELSE apply_actions_until_error(env,
            apply_action(env, w, Head(actions), <<"Failed to create layout tab">>, TRUE),
            Tail(actions), Tail(route_oks))

\* `for action in tabs_to_open { apply_action!(...) }`; route_oks[i] is the
\* router's answer to the i-th action
RECURSIVE apply_actions(_, _, _, _)
apply_actions(env, w, actions, route_oks) ==
    IF actions = <<>>
    THEN w
    ELSE apply_actions(env,
            apply_action(env, w, Head(actions), <<"Failed to create layout tab">>,
                         Head(route_oks)),
            Tail(actions), Tail(route_oks))

new_tabs_with_layout(env, w, raw_layout, route_oks) ==
    LET layout == Layout_from_str(raw_layout)
    IN  IF layout.result = Err
        THEN Fail(w, "Failed to parse layout")
        ELSE apply_actions(env, w, tabs_to_open(layout), route_oks)

new_tab(env, w, route_ok) ==
    apply_action(env, w, Action("NewTab", <<None, <<>>, None, None, None>>),
        <<"Failed to open new tab">>, route_ok)

go_to_next_tab(env, w, route_ok) ==
    apply_action(env, w, Action("GoToNextTab", <<>>),
        <<"Failed to go to next tab">>, route_ok)

go_to_previous_tab(env, w, route_ok) ==
    apply_action(env, w, Action("GoToPreviousTab", <<>>),
        <<"Failed to go to previous tab">>, route_ok)

resize(env, w, resize_payload, route_ok) ==
    apply_action(env, w, Action("Resize", <<resize_payload, None>>),
        <<"failed to resize in plugin", env.name>>, route_ok)

resize_with_direction(env, w, resize_strategy, route_ok) ==
    apply_action(env, w,
        Action("Resize", <<resize_strategy.resize, resize_strategy.direction>>),
        <<"failed to resize in plugin", env.name>>, route_ok)

focus_next_pane(env, w, route_ok) ==
    apply_action(env, w, Action("FocusNextPane", <<>>),
        <<"Failed to focus next pane">>, route_ok)

focus_previous_pane(env, w, route_ok) ==
    apply_action(env, w, Action("FocusPreviousPane", <<>>),
        <<"Failed to focus previous pane">>, route_ok)

move_focus(env, w, direction, route_ok) ==
    apply_action(env, w, Action("MoveFocus", <<direction>>),
        <<"failed to move focus in plugin", env.name>>, route_ok)

move_focus_or_tab(env, w, direction, route_ok) ==
    apply_action(env, w, Action("MoveFocusOrTab", <<direction>>),
        <<"failed to move focus in plugin", env.name>>, route_ok)

detach(env, w, route_ok) ==
    apply_action(env, w, Action("Detach", <<>>), <<"Failed to detach">>, route_ok)

edit_scrollback(env, w, route_ok) ==
    apply_action(env, w, Action("EditScrollback", <<>>),
        <<"Failed to edit scrollback">>, route_ok)

write(env, w, bytes, route_ok) ==
    apply_action(env, w, Action("Write", <<bytes>>),
        <<"failed to write in plugin", env.name>>, route_ok)

write_chars(env, w, chars_to_write, route_ok) ==
    apply_action(env, w, Action("WriteChars", <<chars_to_write>>),
        <<"failed to write in plugin", env.name>>, route_ok)

toggle_tab(env, w, route_ok) ==
    apply_action(env, w, Action("ToggleTab", <<>>), <<"Failed to toggle tab">>, route_ok)

move_pane(env, w, route_ok) ==
    apply_action(env, w, Action("MovePane", <<None>>),
        <<"failed to move pane in plugin", env.name>>, route_ok)

move_pane_with_direction(env, w, direction, route_ok) ==
    apply_action(env, w, Action("MovePane", <<Some(direction)>>),
        <<"failed to move pane in plugin", env.name>>, route_ok)

clear_screen(env, w, route_ok) ==
    apply_action(env, w, Action("ClearScreen", <<>>),
        <<"failed to clear screen in plugin", env.name>>, route_ok)

scroll_up(env, w, route_ok) ==
    apply_action(env, w, Action("ScrollUp", <<>>),
        <<"failed to scroll up in plugin", env.name>>, route_ok)

scroll_down(env, w, route_ok) ==
    apply_action(env, w, Action("ScrollDown", <<>>),
        <<"failed to scroll down in plugin", env.name>>, route_ok)

scroll_to_top(env, w, route_ok) ==
    apply_action(env, w, Action("ScrollToTop", <<>>),
        <<"failed to scroll in plugin", env.name>>, route_ok)

scroll_to_bottom(env, w, route_ok) ==
    apply_action(env, w, Action("ScrollToBottom", <<>>),
        <<"failed to scroll in plugin", env.name>>, route_ok)

page_scroll_up(env, w, route_ok) ==
    apply_action(env, w, Action("PageScrollUp", <<>>),
        <<"failed to scroll in plugin", env.name>>, route_ok)

page_scroll_down(env, w, route_ok) ==
    apply_action(env, w, Action("PageScrollDown", <<>>),
        <<"failed to scroll in plugin", env.name>>, route_ok)

toggle_focus_fullscreen(env, w, route_ok) ==
    apply_action(env, w, Action("ToggleFocusFullscreen", <<>>),
        <<"failed to toggle full screen in plugin", env.name>>, route_ok)

toggle_pane_frames(env, w, route_ok) ==
    apply_action(env, w, Action("TogglePaneFrames", <<>>),
        <<"failed to toggle full screen in plugin", env.name>>, route_ok)

toggle_pane_embed_or_eject(env, w, route_ok) ==
    apply_action(env, w, Action("TogglePaneEmbedOrFloating", <<>>),
        <<"failed to toggle pane embed or eject in plugin", env.name>>, route_ok)

undo_rename_pane(env, w, route_ok) ==
    apply_action(env, w, Action("UndoRenamePane", <<>>),
        <<"failed to undo rename pane in plugin", env.name>>, route_ok)

close_focus(env, w, route_ok) ==
    apply_action(env, w, Action("CloseFocus", <<>>),
        <<"failed to close focused pane in plugin", env.name>>, route_ok)

toggle_active_tab_sync(env, w, route_ok) ==
    apply_action(env, w, Action("ToggleActiveSyncTab", <<>>),
        <<"failed to toggle active tab sync in plugin", env.name>>, route_ok)

close_focused_tab(env, w, route_ok) ==
    apply_action(env, w, Action("CloseTab", <<>>),
        <<"failed to close active tab in plugin", env.name>>, route_ok)

undo_rename_tab(env, w, route_ok) ==
    apply_action(env, w, Action("UndoRenameTab", <<>>),
        <<"failed to undo rename tab in plugin", env.name>>, route_ok)

quit_zellij(env, w, route_ok) ==
    apply_action(env, w, Action("Quit", <<>>),
        <<"failed to quit zellij in plugin", env.name>>, route_ok)

previous_swap_layout(env, w, route_ok) ==
    apply_action(env, w, Action("PreviousSwapLayout", <<>>),
        <<"failed to switch swap layout in plugin", env.name>>, route_ok)

next_swap_layout(env, w, route_ok) ==
    apply_action(env, w, Action("NextSwapLayout", <<>>),
        <<"failed to switch swap layout in plugin", env.name>>, route_ok)

go_to_tab_name(env, w, tab_name, route_ok) ==
    apply_action(env, w, Action("GoToTabName", <<tab_name, FALSE>>),
        <<"failed to change tab in plugin", env.name>>, route_ok)

focus_or_create_tab(env, w, tab_name, route_ok) ==
    apply_action(env, w, Action("GoToTabName", <<tab_name, TRUE>>),
        <<"failed to change or create tab in plugin", env.name>>, route_ok)

go_to_tab(env, w, tab_index, route_ok) ==
    apply_action(env, w, Action("GoToTab", <<tab_index>>),
        <<"failed to change tab focus in plugin", env.name>>, route_ok)

\* Url::parse on the text of a plugin url
Url_parse(url) ==
    IF url \in {"file:/plugin.wasm", "http://plugin"}
    THEN [result |-> Ok, url |-> url]
    ELSE [result |-> Err]

\* RunPluginLocation::parse: file: and zellij: locations only
RunPluginLocation_parse(url, cwd) ==
    IF url = "file:/plugin.wasm"
    THEN [result |-> Ok, location |-> <<"File", "/plugin.wasm">>]
    ELSE [result |-> Err]

\* a start_or_reload_plugin that hands the router the url as it came when it
\* is no plugin location, where the code returns the Err
start_or_reload_plugin_unparsed(env, w, url, route_ok) ==
    LET parsed == Url_parse(url)
        run_plugin_location == RunPluginLocation_parse(parsed.url, Some("."))
    IN  IF parsed.result = Err
        THEN Fail(w, "Failed to parse url")
        ELSE apply_action(env, w,
                Action("StartOrReloadPlugin",
                       <<[location |-> IF run_plugin_location.result = Err
                                       THEN <<"Remote", url>>
                                       ELSE run_plugin_location.location,
                          allow_exec_host_cmd |-> FALSE]>>),
                <<"failed to start or reload plugin in plugin", env.name>>, route_ok)

\* a start_or_reload_plugin that gives the plugin it starts the exec flag of
\* the caller, where the code gives it false
start_or_reload_plugin_inheriting(env, w, url, route_ok) ==
    LET parsed == Url_parse(url)
        run_plugin_location == RunPluginLocation_parse(parsed.url, Some("."))
    IN  IF parsed.result = Err
        THEN Fail(w, "Failed to parse url")
        ELSE IF run_plugin_location.result = Err
        THEN Fail(w, "Failed to parse plugin location")
        ELSE apply_action(env, w,
                Action("StartOrReloadPlugin",
                       <<[location |-> run_plugin_location.location,
                          allow_exec_host_cmd |-> env.allow_exec_host_cmd]>>),
                <<"failed to start or reload plugin in plugin", env.name>>, route_ok)

start_or_reload_plugin(env, w, url, route_ok) ==
    LET parsed == Url_parse(url)
        run_plugin_location == RunPluginLocation_parse(parsed.url, Some("."))
    IN  IF parsed.result = Err
        THEN Fail(w, "Failed to parse url")
        ELSE IF run_plugin_location.result = Err
        THEN Fail(w, "Failed to parse plugin location")
        ELSE apply_action(env, w,
                Action("StartOrReloadPlugin",
                       <<[location |-> run_plugin_location.location,
                          allow_exec_host_cmd |-> FALSE]>>),
                <<"failed to start or reload plugin in plugin", env.name>>, route_ok)

close_terminal_pane(env, w, terminal_pane_id, route_ok) ==
    apply_action(env, w, Action("CloseTerminalPane", <<terminal_pane_id>>),
        <<"failed to change tab focus in plugin", env.name>>, route_ok)

close_plugin_pane(env, w, plugin_pane_id, route_ok) ==
    apply_action(env, w, Action("ClosePluginPane", <<plugin_pane_id>>),
        <<"failed to change tab focus in plugin", env.name>>, route_ok)

focus_terminal_pane(env, w, terminal_pane_id, should_float_if_hidden, route_ok) ==
    apply_action(env, w,
        Action("FocusTerminalPaneWithId", <<terminal_pane_id, should_float_if_hidden>>),
        <<"Failed to focus terminal pane">>, route_ok)

focus_plugin_pane(env, w, plugin_pane_id, should_float_if_hidden, route_ok) ==
    apply_action(env, w,
        Action("FocusPluginPaneWithId", <<plugin_pane_id, should_float_if_hidden>>),
        <<"Failed to focus plugin pane">>, route_ok)

\* new_name.as_bytes().to_vec() of a name given as its bytes
as_bytes(new_name) == new_name

rename_terminal_pane(env, w, terminal_pane_id, new_name, route_ok) ==
    apply_action(env, w,
        Action("RenameTerminalPane", <<terminal_pane_id, as_bytes(new_name)>>),
        <<"Failed to rename terminal pane">>, route_ok)

rename_plugin_pane(env, w, plugin_pane_id, new_name, route_ok) ==
    apply_action(env, w,
        Action("RenamePluginPane", <<plugin_pane_id, as_bytes(new_name)>>),
        <<"Failed to rename plugin pane">>, route_ok)

rename_tab(env, w, tab_index, new_name, route_ok) ==
    apply_action(env, w, Action("RenameTab", <<tab_index, as_bytes(new_name)>>),
        <<"Failed to rename tab">>, route_ok)

\* wasm_bridge::handle_plugin_crash: the crash notice (plugin id and
\* message) goes to the plugin-instruction channel; a failed send is dropped
handle_plugin_crash(env, w, plugin_id, message) ==
    IF env.to_plugin = "None" \/ w.to_plugin_closed
    THEN w
    ELSE [w EXCEPT !.to_plugin = Append(@,
            [tag |-> "PluginCrash", plugin_id |-> plugin_id, client_id |-> None,
             data |-> <<message>>])]

report_panic(env, w, msg) ==
    handle_plugin_crash(env,
        [w EXCEPT !.log = Append(@, LogEntry("error", <<"PANIC IN PLUGIN!">>, msg))],
        env.plugin_id, msg)

(***************************************************************************)
(* Decoding and dispatch.                                                  *)
(***************************************************************************)
\* What the guest left on its stdout: nothing readable, text that is no JSON
\* byte array, bytes that are no ProtobufPluginCommand, an envelope that is
\* no PluginCommand, or a command.
GuestBufferKinds == {"unreadable", "not_json", "not_protobuf", "not_command", "command"}

\* str::replace("\n", "\n\r") on a text, a sequence of characters
RECURSIVE replace_newlines(_)
replace_newlines(text) ==
    IF text = <<>>
    THEN <<>>
    ELSE IF Head(text) = "\n"
         THEN <<"\n", "\r">> \o replace_newlines(Tail(text))
         ELSE <<Head(text)>> \o replace_newlines(Tail(text))

\* wasi_read_string: the text of the guest's stdout, its newlines replaced
wasi_read_string(buf) ==
    IF buf.kind = "unreadable"
    THEN [result |-> Err, error |-> "failed to read string from WASI env"]
    ELSE [result |-> Ok, string |-> replace_newlines(buf.text)]

\* wasi_read_string, then serde_json::from_str: the text is the JSON of a
\* byte array or it is not
wasi_read_bytes(buf) ==
    LET string == wasi_read_string(buf)
    IN  IF string.result = Err
        THEN string
        ELSE IF buf.kind = "not_json"
        THEN [result |-> Err, error |-> "failed to deserialize object from WASI env"]
        ELSE [result |-> Ok,
              bytes |-> [kind |-> buf.kind, command |-> buf.command, json |-> string.string]]

\* ProtobufPluginCommand::decode
ProtobufPluginCommand_decode(bytes) ==
    IF bytes.kind = "not_protobuf"
    THEN [result |-> Err, error |-> "failed to decode"]
    ELSE [result |-> Ok, envelope |-> bytes]

\* TryFrom<ProtobufPluginCommand> for PluginCommand
try_into_PluginCommand(envelope) ==
    IF envelope.kind = "not_command"
    THEN [result |-> Err, error |-> "failed to convert serialized command"]
    ELSE [result |-> Ok, command |-> envelope.command]

\* the arms of the match of host_run_plugin_command, in order: the variant
\* an arm matches and the handler it calls
MatchArms ==
    << <<"Subscribe", "subscribe">>, <<"Unsubscribe", "unsubscribe">>,
       <<"SetSelectable", "set_selectable">>, <<"GetPluginIds", "get_plugin_ids">>,
       <<"GetZellijVersion", "get_zellij_version">>, <<"OpenFile", "open_file">>,
       <<"OpenFileFloating", "open_file_floating">>, <<"OpenTerminal", "open_terminal">>,
       <<"OpenTerminalFloating", "open_terminal_floating">>,
       <<"OpenCommandPane", "open_command_pane">>,
       <<"OpenCommandPaneFloating", "open_command_pane_floating">>,
       <<"SwitchTabTo", "switch_tab_to">>, <<"SetTimeout", "set_timeout">>,
       <<"ExecCmd", "exec_cmd">>, <<"PostMessageTo", "post_message_to">>,
       <<"PostMessageToPlugin", "post_message_to_plugin">>, <<"HideSelf", "hide_self">>,
       <<"ShowSelf", "show_self">>, <<"SwitchToMode", "switch_to_mode">>,
       <<"NewTabsWithLayout", "new_tabs_with_layout">>, <<"NewTab", "new_tab">>,
       <<"GoToNextTab", "go_to_next_tab">>, <<"GoToPreviousTab", "go_to_previous_tab">>,
       <<"Resize", "resize">>, <<"ResizeWithDirection", "resize_with_direction">>,
       <<"FocusNextPane", "focus_next_pane">>, <<"FocusPreviousPane", "focus_previous_pane">>,
       <<"MoveFocus", "move_focus">>, <<"MoveFocusOrTab", "move_focus_or_tab">>,
       <<"Detach", "detach">>, <<"EditScrollback", "edit_scrollback">>,
       <<"Write", "write">>, <<"WriteChars", "write_chars">>, <<"ToggleTab", "toggle_tab">>,
       <<"MovePane", "move_pane">>, <<"MovePaneWithDirection", "move_pane_with_direction">>,
       <<"ClearScreen", "clear_screen">>, <<"ScrollUp", "scroll_up">>,
       <<"ScrollDown", "scroll_down">>, <<"ScrollToTop", "scroll_to_top">>,
       <<"ScrollToBottom", "scroll_to_bottom">>, <<"PageScrollUp", "page_scroll_up">>,
       <<"PageScrollDown", "page_scroll_down">>,
       <<"ToggleFocusFullscreen", "toggle_focus_fullscreen">>,
       <<"TogglePaneFrames", "toggle_pane_frames">>,
       <<"TogglePaneEmbedOrEject", "toggle_pane_embed_or_eject">>,
       <<"UndoRenamePane", "undo_rename_pane">>, <<"CloseFocus", "close_focus">>,
       <<"ToggleActiveTabSync", "toggle_active_tab_sync">>,
       <<"CloseFocusedTab", "close_focused_tab">>, <<"UndoRenameTab", "undo_rename_tab">>,
       <<"QuitZellij", "quit_zellij">>, <<"PreviousSwapLayout", "previous_swap_layout">>,
       <<"NextSwapLayout", "next_swap_layout">>, <<"GoToTabName", "go_to_tab_name">>,
       <<"FocusOrCreateTab", "focus_or_create_tab">>, <<"GoToTab", "go_to_tab">>,
       <<"StartOrReloadPlugin", "start_or_reload_plugin">>,
       <<"CloseTerminalPane", "close_terminal_pane">>,
       <<"ClosePluginPane", "close_plugin_pane">>,
       <<"FocusTerminalPane", "focus_terminal_pane">>,
       <<"FocusPluginPane", "focus_plugin_pane">>,
       <<"RenameTerminalPane", "rename_terminal_pane">>,
       <<"RenamePluginPane", "rename_plugin_pane">>, <<"RenameTab", "rename_tab">>,
       <<"ReportPanic", "report_panic">> >>

\* the variants of PluginCommand that reach the dispatcher
PluginCommandVariants == {MatchArms[i][1] : i \in 1..Len(MatchArms)}

\* the arms whose pattern matches the command
matching_arms(command) == {i \in 1..Len(MatchArms) : MatchArms[i][1] = command.tag}

\* a match that skips the arms of the variants past the first
match_first_arm_only(command) == {i \in matching_arms(command) : i = 1}

\* a match runs the first arm that matches, and no other
match_arm(command) ==
    LET arms == matching_arms(command)
    IN  {i \in arms : \A j \in arms : i <= j}

\* the call a match arm makes; o holds what the collaborators answer during
\* the call: the registry's mutex, the screen channel, the router per
\* action, the guest's stdin, the process spawn
run_handler(handler, env, w, p, o) ==
    LET route_ok == o.route_oks[1]
    IN  CASE handler = "subscribe" -> subscribe(env, w, p, o.lock_ok)
          [] handler = "unsubscribe" -> unsubscribe(env, w, p, o.lock_ok)
          [] handler = "set_selectable" -> set_selectable(env, w, p, o.screen_ok)
          [] handler = "get_plugin_ids" -> get_plugin_ids(env, w, o.stdin_ok)
          [] handler = "get_zellij_version" -> get_zellij_version(env, w, o.stdin_ok)
          [] handler = "open_file" -> open_file(env, w, p, route_ok)
          [] handler = "open_file_floating" -> open_file_floating(env, w, p, route_ok)
          [] handler = "open_terminal" -> open_terminal(env, w, p, route_ok)
          [] handler = "open_terminal_floating" -> open_terminal_floating(env, w, p, route_ok)
          [] handler = "open_command_pane" -> open_command_pane(env, w, p, route_ok)
          [] handler = "open_command_pane_floating" -> open_command_pane_floating(env, w, p, route_ok)
          [] handler = "switch_tab_to" -> switch_tab_to(env, w, p, o.screen_ok)
          [] handler = "set_timeout" -> set_timeout(env, w, p)
          [] handler = "exec_cmd" -> exec_cmd(env, w, p, o.spawn_ok)
          [] handler = "post_message_to" -> post_message_to(env, w, p)
          [] handler = "post_message_to_plugin" -> post_message_to_plugin(env, w, p)
          [] handler = "hide_self" -> hide_self(env, w, o.screen_ok)
          [] handler = "show_self" -> show_self(env, w, p, route_ok)
          [] handler = "switch_to_mode" -> switch_to_mode(env, w, p, route_ok)
          [] handler = "new_tabs_with_layout" -> new_tabs_with_layout(env, w, p, o.route_oks)
          [] handler = "new_tab" -> new_tab(env, w, route_ok)
          [] handler = "go_to_next_tab" -> go_to_next_tab(env, w, route_ok)
          [] handler = "go_to_previous_tab" -> go_to_previous_tab(env, w, route_ok)
          [] handler = "resize" -> resize(env, w, p, route_ok)
          [] handler = "resize_with_direction" -> resize_with_direction(env, w, p, route_ok)
          [] handler = "focus_next_pane" -> focus_next_pane(env, w, route_ok)
          [] handler = "focus_previous_pane" -> focus_previous_pane(env, w, route_ok)
          [] handler = "move_focus" -> move_focus(env, w, p, route_ok)
          [] handler = "move_focus_or_tab" -> move_focus_or_tab(env, w, p, route_ok)
          [] handler = "detach" -> detach(env, w, route_ok)
          [] handler = "edit_scrollback" -> edit_scrollback(env, w, route_ok)
          [] handler = "write" -> write(env, w, p, route_ok)
          [] handler = "write_chars" -> write_chars(env, w, p, route_ok)
          [] handler = "toggle_tab" -> toggle_tab(env, w, route_ok)
          [] handler = "move_pane" -> move_pane(env, w, route_ok)
          [] handler = "move_pane_with_direction" -> move_pane_with_direction(env, w, p, route_ok)
          [] handler = "clear_screen" -> clear_screen(env, w, route_ok)
          [] handler = "scroll_up" -> scroll_up(env, w, route_ok)
          [] handler = "scroll_down" -> scroll_down(env, w, route_ok)
          [] handler = "scroll_to_top" -> scroll_to_top(env, w, route_ok)
          [] handler = "scroll_to_bottom" -> scroll_to_bottom(env, w, route_ok)
          [] handler = "page_scroll_up" -> page_scroll_up(env, w, route_ok)
          [] handler = "page_scroll_down" -> page_scroll_down(env, w, route_ok)
          [] handler = "toggle_focus_fullscreen" -> toggle_focus_fullscreen(env, w, route_ok)
          [] handler = "toggle_pane_frames" -> toggle_pane_frames(env, w, route_ok)
          [] handler = "toggle_pane_embed_or_eject" -> toggle_pane_embed_or_eject(env, w, route_ok)
          [] handler = "undo_rename_pane" -> undo_rename_pane(env, w, route_ok)
          [] handler = "close_focus" -> close_focus(env, w, route_ok)
          [] handler = "toggle_active_tab_sync" -> toggle_active_tab_sync(env, w, route_ok)
          [] handler = "close_focused_tab" -> close_focused_tab(env, w, route_ok)
          [] handler = "undo_rename_tab" -> undo_rename_tab(env, w, route_ok)
          [] handler = "quit_zellij" -> quit_zellij(env, w, route_ok)
          [] handler = "previous_swap_layout" -> previous_swap_layout(env, w, route_ok)
          [] handler = "next_swap_layout" -> next_swap_layout(env, w, route_ok)
          [] handler = "go_to_tab_name" -> go_to_tab_name(env, w, p, route_ok)
          [] handler = "focus_or_create_tab" -> focus_or_create_tab(env, w, p, route_ok)
          [] handler = "go_to_tab" -> go_to_tab(env, w, p, route_ok)
          [] handler = "start_or_reload_plugin" -> start_or_reload_plugin(env, w, p, route_ok)
          [] handler = "close_terminal_pane" -> close_terminal_pane(env, w, p, route_ok)
          [] handler = "close_plugin_pane" -> close_plugin_pane(env, w, p, route_ok)
          [] handler = "focus_terminal_pane" -> focus_terminal_pane(env, w, p[1], p[2], route_ok)
          [] handler = "focus_plugin_pane" -> focus_plugin_pane(env, w, p[1], p[2], route_ok)
          [] handler = "rename_terminal_pane" -> rename_terminal_pane(env, w, p[1], p[2], route_ok)
          [] handler = "rename_plugin_pane" -> rename_plugin_pane(env, w, p[1], p[2], route_ok)
          [] handler = "rename_tab" -> rename_tab(env, w, p[1], p[2], route_ok)
          [] handler = "report_panic" -> report_panic(env, w, p)

\* TryInto<PathBuf> on the path of an OpenTerminal command: Err on a path
\* that does not convert
try_into_PathBuf(path) ==
    IF path = "not a path"
    THEN [result |-> Err, error |-> "failed to convert path"]
    ELSE [result |-> Ok, value |-> path]

\* TryInto<InputMode> on the mode of a SwitchToMode command: Err on a mode
\* that is none of the input modes
try_into_InputMode(input_mode) ==
    IF input_mode \in {"Normal", "Locked", "Resize", "Pane", "Tab", "Scroll", "Search"}
    THEN [result |-> Ok, value |-> input_mode]
    ELSE [result |-> Err, error |-> "failed to convert input mode"]

\* what an arm hands its handler: the payload, or for the arms that write
\* `.try_into()?` the payload converted, the handler not called on an Err
arm_argument(handler, p) ==
    CASE handler \in {"open_terminal", "open_terminal_floating"} -> try_into_PathBuf(p.path)
      [] handler = "switch_to_mode" -> try_into_InputMode(p)
      [] OTHER -> [result |-> Ok, value |-> p]

\* the match: every matching arm the language runs (one, the first) is
\* noted in w.handlers by the handler it names, and calls it, unless its
\* argument does not convert, on the state the one before left
RECURSIVE run_arms(_, _, _, _, _)
run_arms(arms, env, w, command, o) ==
    IF arms = {} \/ w.result # Ok
    THEN w
    ELSE LET i == CHOOSE a \in arms : \A b \in arms : a <= b
             handler == MatchArms[i][2]
             argument == arm_argument(handler, command.payload)
             taken == [w EXCEPT !.handlers = Append(@, handler)]
         IN  IF argument.result = Err
             THEN Fail(taken, argument.error)
             ELSE run_arms(arms \ {i}, env,
                     run_handler(handler, env, taken, argument.value, o),
                     command, o)

dispatch(env, w, command, o) == run_arms(match_arm(command), env, w, command, o)

\* a host_run_plugin_command that drops the Err without the log line
host_run_plugin_command_unlogged(env, w, buf, o) ==
    LET bytes == wasi_read_bytes(buf)
        envelope == ProtobufPluginCommand_decode(bytes.bytes)
        command == try_into_PluginCommand(envelope.envelope)
        done ==
            IF bytes.result = Err THEN Fail(w, bytes.error)
            ELSE IF envelope.result = Err THEN Fail(w, envelope.error)
            ELSE IF command.result = Err THEN Fail(w, command.error)
            ELSE dispatch(env, w, command.command, o)
    IN  IF done.result = Err THEN [done EXCEPT !.result = Ok, !.error = ""] ELSE done

\* host_run_plugin_command: read, decode, convert, dispatch; whatever Err
\* comes out is logged with the plugin's name and dropped
host_run_plugin_command(env, w, buf, o) ==
    LET bytes == wasi_read_bytes(buf)
        envelope == ProtobufPluginCommand_decode(bytes.bytes)
        command == try_into_PluginCommand(envelope.envelope)
        done ==
            IF bytes.result = Err THEN Fail(w, bytes.error)
            ELSE IF envelope.result = Err THEN Fail(w, envelope.error)
            ELSE IF command.result = Err THEN Fail(w, command.error)
            ELSE dispatch(env, w, command.command, o)
    IN  non_fatal(done, <<"failed to run plugin command", env.name>>)

(***************************************************************************)
(* The timer thread of set_timeout.                                        *)
(***************************************************************************)
\* The delay a guest asks for is an f32 of seconds, the clock counts whole
\* ticks (nanoseconds): delays are given in SubTicks-ths of a tick.
SubTicks == 2

\* Duration::from_secs_f32: panics on a negative delay (as on NaN, an
\* infinity or an overflow), and rounds to the nearest whole tick, a tie to
\* the even one
from_secs_f32(secs) ==
    IF secs < 0
    THEN [result |-> Panic]
    ELSE LET q == secs \div SubTicks
             r == secs % SubTicks
         IN  [result |-> Ok,
              ticks |-> IF 2 * r < SubTicks THEN q
                        ELSE IF 2 * r > SubTicks THEN q + 1
                        ELSE IF q % 2 = 0 THEN q ELSE q + 1]

\* the closure at its start: start_time = Instant::now(), and the argument
\* of thread::sleep is computed
timer_start(timer) ==
    IF from_secs_f32(timer.secs).result = Panic
    THEN [timer EXCEPT !.pc = "panicked"]
    ELSE [timer EXCEPT !.pc = "sleeping", !.clock = 0]

\* a sleep that may return at once
may_wake_at_once(timer) == timer.pc = "sleeping"

\* thread::sleep returns once at least the duration has passed
may_wake(timer) ==
    /\ timer.pc = "sleeping"
    /\ timer.clock >= from_secs_f32(timer.secs).ticks

\* elapsed_time = Instant::now().duration_since(start_time)
measure(timer) == [timer EXCEPT !.elapsed_time = timer.clock]

\* the Update the thread sends
timer_update(timer) ==
    [tag |-> "Update", plugin_id |-> timer.update_target, client_id |-> Some(timer.client_id),
     data |-> <<"Timer", timer.elapsed_time>>]

(***************************************************************************)
(* State.                                                                  *)
(***************************************************************************)
VARIABLES
    plugin_env,         \* env.plugin_env, as far as this file reads it
    subscriptions,      \* env.subscriptions: the set behind the mutex
    to_plugin,          \* the plugin-instruction channel: what was sent on it
    to_plugin_closed,   \* whether its receiving end is gone
    to_screen,          \* the screen-instruction channel: what was sent on it
    timers,             \* the threads set_timeout spawned
    routed,             \* the last call: the actions handed to route_action
    guest_stdin,        \* the last call: what was written to the guest
    spawned,            \* the last call: the processes spawned
    log,                \* the last call: the lines logged
    call,               \* the call in progress: its command, the text read from
                        \* the guest, its handlers, its use of the registry lock,
                        \* its outcome, and the registry and channels it started from
    history,            \* the subscribe and unsubscribe commands that took the
                        \* registry lock, in the order they ran, each with the
                        \* registry it found and the registry it left
    ncalls              \* the calls made

vars == <<plugin_env, subscriptions, to_plugin, to_plugin_closed, to_screen, timers, routed, guest_stdin, spawned, log,
          call, history, ncalls>>

\* ForeignFunctionEnv.subscriptions when the env reaches this file: the
\* registry is shared with the plugin map and holds what the plugin's
\* earlier life left in it
InitialSubscriptions(env) == IF env.name = "plugin-b" THEN {"Key"} ELSE {}

\* no call in progress
Idle ==
    [status |-> "idle", kind |-> "none", command |-> None, answers |-> None,
     handlers |-> <<>>, read |-> None, lock_held |-> FALSE, locks |-> 0,
     under_lock |-> 0, registry_at_send |-> <<>>, before |-> None]

Init ==
    /\ plugin_env \in PluginEnvs
    /\ subscriptions = InitialSubscriptions(plugin_env)
    /\ to_plugin = <<>>
    /\ to_plugin_closed = FALSE
    /\ to_screen = <<>>
    /\ timers = <<>>
    /\ routed = <<>>
    /\ guest_stdin = <<>>
    /\ spawned = <<>>
    /\ log = <<>>
    /\ call = Idle
    /\ history = <<>>
    /\ ncalls = 0

(***************************************************************************)
(* What a guest may send.                                                  *)
(***************************************************************************)
Secs == -1..MaxSecs

FilesToOpen ==
    { [path |-> "/tmp/a.txt", line_number |-> Some(5), cwd |-> None],
      [path |-> "b.txt", line_number |-> None, cwd |-> Some("/tmp")] }

CommandsToRun == { [path |-> "ls", args |-> <<"-la">>, cwd |-> None] }

CommandLines == { <<>>, <<"ls">>, <<"ls", "-la">> }

PluginMessages ==
    { [name |-> "ping", payload |-> "data", worker_name |-> None],
      [name |-> "ping", payload |-> "data", worker_name |-> Some("worker")] }

RawLayouts ==
    { [parses |-> FALSE, tabs |-> <<>>, template |-> None,
       swap_tiled_layouts |-> <<>>, swap_floating_layouts |-> <<>>],
      [parses |-> TRUE, tabs |-> <<>>, template |-> None,
       swap_tiled_layouts |-> <<>>, swap_floating_layouts |-> <<>>],
      [parses |-> TRUE, tabs |-> <<>>,
       template |-> Some([tiled |-> "pane", floating |-> <<"float">>]),
       swap_tiled_layouts |-> <<"swap">>, swap_floating_layouts |-> <<>>],
      [parses |-> TRUE,
       tabs |-> << [name |-> Some("one"), tiled |-> "pane", floating |-> <<>>],
                   [name |-> None, tiled |-> "pane", floating |-> <<"float">>] >>,
       template |-> None,
       swap_tiled_layouts |-> <<>>, swap_floating_layouts |-> <<>>] }

PluginUrls == {"file:/plugin.wasm", "http://plugin", "no url"}

\* the payloads of a variant
Payloads(tag) ==
    CASE tag \in {"Subscribe", "Unsubscribe"} -> SUBSET EventTypes
      [] tag \in {"SetSelectable", "ShowSelf"} -> BOOLEAN
      [] tag \in {"OpenFile", "OpenFileFloating"} -> FilesToOpen
      [] tag \in {"OpenTerminal", "OpenTerminalFloating"} ->
            { [path |-> "/home", line_number |-> None, cwd |-> None],
              [path |-> "not a path", line_number |-> None, cwd |-> None] }
      [] tag \in {"OpenCommandPane", "OpenCommandPaneFloating"} -> CommandsToRun
      [] tag \in {"SwitchTabTo", "GoToTab"} -> {1}
      [] tag = "SetTimeout" -> Secs
      [] tag = "ExecCmd" -> CommandLines
      [] tag \in {"PostMessageTo", "PostMessageToPlugin"} -> PluginMessages
      [] tag = "SwitchToMode" -> {"Locked", "NoSuchMode"}
      [] tag = "NewTabsWithLayout" -> RawLayouts
      [] tag = "Resize" -> {"Increase"}
      [] tag = "ResizeWithDirection" -> { [resize |-> "Decrease", direction |-> Some("Left")] }
      [] tag \in {"MoveFocus", "MoveFocusOrTab", "MovePaneWithDirection"} -> {"Left"}
      [] tag = "Write" -> { <<104, 105>> }
      [] tag = "WriteChars" -> {"hi"}
      [] tag \in {"GoToTabName", "FocusOrCreateTab"} -> {"tab"}
      [] tag = "StartOrReloadPlugin" -> PluginUrls
      [] tag \in {"CloseTerminalPane", "ClosePluginPane"} -> {9}
      [] tag \in {"FocusTerminalPane", "FocusPluginPane"} -> { <<9, TRUE>> }
      [] tag \in {"RenameTerminalPane", "RenamePluginPane", "RenameTab"} -> { <<9, <<110>>>> }
      [] tag = "ReportPanic" -> {"boom"}
      [] OTHER -> { None }

\* the variants whose handler ends in one apply_action!
ForwardVariants ==
    PluginCommandVariants \
        {"Subscribe", "Unsubscribe", "SetSelectable", "GetPluginIds", "GetZellijVersion",
         "SwitchTabTo", "SetTimeout", "ExecCmd", "PostMessageTo", "PostMessageToPlugin",
         "HideSelf", "NewTabsWithLayout", "ReportPanic"}

\* the text on the guest's stdout
GuestText(kind) ==
    CASE kind = "unreadable" -> <<>>
      [] kind = "not_json" -> <<"o", "\n", "\r", "p", "s", "\n">>
      [] OTHER -> <<"[", "1", "0", ",", "\n", "2", "]">>

\* every collaborator answering well
AllOk ==
    [lock_ok |-> TRUE, screen_ok |-> TRUE, route_oks |-> <<TRUE>>, stdin_ok |-> TRUE,
     spawn_ok |-> TRUE]

\* what the collaborators may answer during a call of a variant
Answers(tag) ==
    CASE tag \in ForwardVariants ->
            {[AllOk EXCEPT !.route_oks = <<ok>>] : ok \in BOOLEAN}
      [] tag = "NewTabsWithLayout" ->
            {[AllOk EXCEPT !.route_oks = oks] :
                oks \in {<<TRUE, TRUE>>, <<FALSE, TRUE>>, <<FALSE, FALSE>>}}
      [] tag \in {"Subscribe", "Unsubscribe"} ->
            {[AllOk EXCEPT !.lock_ok = ok] : ok \in BOOLEAN}
      [] tag \in {"SetSelectable", "SwitchTabTo", "HideSelf"} ->
            {[AllOk EXCEPT !.screen_ok = ok] : ok \in BOOLEAN}
      [] tag \in {"GetPluginIds", "GetZellijVersion"} ->
            {[AllOk EXCEPT !.stdin_ok = ok] : ok \in BOOLEAN}
      [] tag = "ExecCmd" ->
            {[AllOk EXCEPT !.spawn_ok = ok] : ok \in BOOLEAN}
      [] OTHER -> {AllOk}

(***************************************************************************)
(* Actions.                                                                *)
(***************************************************************************)
\* One call of host_run_plugin_command on what the guest wrote.
HostRunPluginCommand(buf, o) ==
    /\ call.status = "idle"
    /\ ncalls < MaxCalls
    /\ LET w == [subscriptions |-> subscriptions,
                 to_plugin |-> to_plugin, to_plugin_closed |-> to_plugin_closed,
                 to_screen |-> to_screen,
                 timers |-> timers, routed |-> <<>>, guest_stdin |-> <<>>,
                 spawned |-> <<>>, log |-> <<>>, handlers |-> <<>>,
                 plugin_env |-> plugin_env,
                 lock_held |-> FALSE, locks |-> 0, under_lock |-> 0,
                 registry_at_send |-> <<>>,
                 result |-> Ok, error |-> ""]
       IN  \E done \in {host_run_plugin_command(plugin_env, w, buf, o)} :
           /\ plugin_env' = done.plugin_env
           /\ subscriptions' = done.subscriptions
           /\ to_plugin' = done.to_plugin
           /\ to_screen' = done.to_screen
           /\ timers' = done.timers
           /\ routed' = done.routed
           /\ guest_stdin' = done.guest_stdin
           /\ spawned' = done.spawned
           /\ log' = done.log
           /\ call' = [status |-> IF done.result = Panic THEN "panicked" ELSE "returned",
                       kind |-> buf.kind,
                       command |-> IF buf.kind = "command" THEN Some(buf.command) ELSE None,
                       answers |-> Some(o),
                       handlers |-> done.handlers,
                       read |-> IF wasi_read_string(buf).result = Ok
                                THEN Some(wasi_read_string(buf).string)
                                ELSE None,
                       lock_held |-> done.lock_held,
                       locks |-> done.locks,
                       under_lock |-> done.under_lock,
                       registry_at_send |-> done.registry_at_send,
                       before |-> Some([plugin_env |-> plugin_env,
                                        subscriptions |-> subscriptions,
                                        to_plugin |-> to_plugin,
                                        to_screen |-> to_screen,
                                        timers |-> timers])]
    /\ history' = IF /\ buf.kind = "command"
                      /\ buf.command.tag \in {"Subscribe", "Unsubscribe"}
                      /\ o.lock_ok
                   THEN Append(history,
                            [tag |-> buf.command.tag, event_list |-> buf.command.payload,
                             before |-> subscriptions, after |-> subscriptions'])
                   ELSE history
    /\ ncalls' = ncalls + 1
    /\ UNCHANGED to_plugin_closed

\* the guest sends a command of one of the variants `tags`
Command(tags) ==
    \E tag \in tags : \E payload \in Payloads(tag) : \E o \in Answers(tag) :
        HostRunPluginCommand([kind |-> "command", text |-> GuestText("command"),
                              command |-> [tag |-> tag, payload |-> payload]], o)

Subscribe == Command({"Subscribe"})
Unsubscribe == Command({"Unsubscribe"})
SetSelectable == Command({"SetSelectable"})
Query == Command({"GetPluginIds", "GetZellijVersion"})
SwitchTabTo == Command({"SwitchTabTo"})
SetTimeout == Command({"SetTimeout"})
ExecCmd == Command({"ExecCmd"})
PostMessage == Command({"PostMessageTo", "PostMessageToPlugin"})
HideSelf == Command({"HideSelf"})
NewTabsWithLayout == Command({"NewTabsWithLayout"})
ReportPanic == Command({"ReportPanic"})
Forward == Command(ForwardVariants)

\* the guest's stdout holds no command
Undecodable ==
    \E kind \in GuestBufferKinds \ {"command"} :
        HostRunPluginCommand([kind |-> kind, text |-> GuestText(kind), command |-> None],
                             AllOk)

\* the call is back in the guest: what it did is no longer looked at
Return ==
    /\ call.status = "returned"
    /\ call' = Idle
    /\ routed' = <<>>
    /\ guest_stdin' = <<>>
    /\ spawned' = <<>>
    /\ log' = <<>>
    /\ UNCHANGED <<plugin_env, subscriptions, to_plugin, to_plugin_closed, to_screen,
                   timers, history, ncalls>>

\* the panic of a handler unwinds the plugin's thread: the plugin makes no
\* call any more, the other threads of the host go on
Unwind ==
    /\ call.status = "panicked"
    /\ call' = [Idle EXCEPT !.status = "dead"]
    /\ routed' = <<>>
    /\ guest_stdin' = <<>>
    /\ spawned' = <<>>
    /\ log' = <<>>
    /\ UNCHANGED <<plugin_env, subscriptions, to_plugin, to_plugin_closed, to_screen,
                   timers, history, ncalls>>

\* whether a call is being looked at: the other threads of the host are
\* looked at between the calls, since a call is one step and a step of
\* another thread during it is one before or after
InCall == call.status \in {"returned", "panicked"}

\* a timer thread starts to run
TimerStart ==
    \E i \in 1..Len(timers) :
        /\ ~InCall
        /\ timers[i].pc = "spawned"
        /\ timers' = [timers EXCEPT ![i] = timer_start(@)]
        /\ UNCHANGED <<plugin_env, subscriptions, to_plugin, to_plugin_closed, to_screen,
                   routed, guest_stdin, spawned, log, call, history, ncalls>>

\* time passes for the sleeping threads
Tick ==
    /\ ~InCall
    /\ \E i \in 1..Len(timers) : timers[i].pc = "sleeping"
    /\ \A i \in 1..Len(timers) : timers[i].pc = "sleeping" => timers[i].clock < MaxTime
    /\ timers' = [i \in 1..Len(timers) |->
                    IF timers[i].pc = "sleeping"
                    THEN [timers[i] EXCEPT !.clock = @ + 1]
                    ELSE timers[i]]
    /\ UNCHANGED <<plugin_env, subscriptions, to_plugin, to_plugin_closed, to_screen,
                   routed, guest_stdin, spawned, log, call, history, ncalls>>

\* a timer thread wakes, measures the time and sends its Update; a missing
\* sender or a closed channel is logged
TimerFire ==
    \E i \in 1..Len(timers) :
        /\ ~InCall
        /\ may_wake(timers[i])
        /\ LET timer == measure(timers[i])
           IN  IF timer.sender = "None"
               THEN /\ timers' = [timers EXCEPT ![i] =
                                    [timers[i] EXCEPT !.pc = "failed", !.clock = 0,
                                                      !.error = "found no sender to send plugin instruction to"]]
                    /\ UNCHANGED to_plugin
               ELSE IF to_plugin_closed
               THEN /\ timers' = [timers EXCEPT ![i] =
                                    [timers[i] EXCEPT !.pc = "failed", !.clock = 0,
                                                      !.error = "send"]]
                    /\ UNCHANGED to_plugin
               ELSE /\ timers' = [timers EXCEPT ![i] = [timer EXCEPT !.pc = "sent"]]
                    /\ to_plugin' = Append(to_plugin, timer_update(timer))
        /\ UNCHANGED <<plugin_env, subscriptions, to_plugin_closed, to_screen, routed,
                       guest_stdin, spawned, log, call, history, ncalls>>

\* the receiver of the plugin-instruction channel is dropped
CloseToPlugin ==
    /\ ~InCall
    /\ ~to_plugin_closed
    /\ to_plugin_closed' = TRUE
    /\ UNCHANGED <<plugin_env, subscriptions, to_plugin, to_screen, timers, routed,
                   guest_stdin, spawned, log, call, history, ncalls>>

Next ==
    \/ Subscribe
    \/ Unsubscribe
    \/ SetSelectable
    \/ Query
    \/ SwitchTabTo
    \/ SetTimeout
    \/ ExecCmd
    \/ PostMessage
    \/ HideSelf
    \/ NewTabsWithLayout
    \/ ReportPanic
    \/ Forward
    \/ Undecodable
    \/ Return
    \/ Unwind
    \/ TimerStart
    \/ Tick
    \/ TimerFire
    \/ CloseToPlugin

Spec == Init /\ [][Next]_vars

(***************************************************************************)
(* The call in progress, as the properties below read it.                  *)
(***************************************************************************)
\* the call ran a command of the variant `tag`
Ran(tag) ==
    /\ InCall
    /\ call.kind = "command"
    /\ call.command[1].tag = tag

\* and is back in the guest
Returned(tag) == Ran(tag) /\ call.status = "returned"

CallPayload == call.command[1].payload
CallAnswers == call.answers[1]
CallBefore == call.before[1]

\* what the call put on the host channels and spawned
SentToPlugin == Len(to_plugin) - Len(CallBefore.to_plugin)
SentToScreen == Len(to_screen) - Len(CallBefore.to_screen)
TimersSpawned == Len(timers) - Len(CallBefore.timers)

\* the call left the host channels as it found them
ChannelsUntouched ==
    /\ to_plugin = CallBefore.to_plugin
    /\ to_screen = CallBefore.to_screen

\* two commands of `history` that ran one after the other
Consecutive == 1..(Len(history) - 1)

C4_SubscribeNotifiesOnce ==
    Returned("Subscribe") /\ log = <<>> =>
        /\ CallPayload \subseteq subscriptions
        /\ to_plugin = Append(CallBefore.to_plugin,
                [tag |-> "PluginSubscribedToEvents",
                 plugin_id |-> plugin_env.plugin_id,
                 client_id |-> plugin_env.client_id,
                 data |-> CallPayload])
        /\ to_screen = CallBefore.to_screen

\* a subscribe has succeeded on a key that was subscribed and one that was not
C4_SubscribedKnownAndNewKeys ==
    /\ Returned("Subscribe")
    /\ log = <<>>
    /\ CallPayload \cap CallBefore.subscriptions # {}
    /\ CallPayload \ CallBefore.subscriptions # {}

(***************************************************************************)
(* Commands run on the host.                                               *)
(***************************************************************************)
\* C5: an exec_cmd of a plugin whose exec flag is false spawns nothing,
\* whatever the command line, the empty one too; it logs one warning that
\* names the command, puts nothing on a host channel, writes nothing to the
\* guest and returns.
C5_DeniedExecWarnsAndReturns ==
    Ran("ExecCmd") /\ ~plugin_env.allow_exec_host_cmd =>
        /\ spawned = <<>>
        /\ ChannelsUntouched
        /\ routed = <<>>
        /\ guest_stdin = <<>>
        /\ call.status = "returned"
        /\ Len(log) = 1
        /\ log[1].level = "warn"
        /\ log[1].detail = <<Head(CallPayload), Tail(CallPayload)>>

\* a plugin without the exec flag has sent the empty command line, and the
\* handler has panicked
C5_EmptyCommandLineDenied ==
    /\ Ran("ExecCmd")
    /\ ~plugin_env.allow_exec_host_cmd
    /\ CallPayload = <<>>
    /\ call.status = "panicked"
    /\ log = <<>>

\* C6: an exec_cmd of a plugin whose exec flag is true returns, having
\* spawned one process, the first token of the command line run on the
\* remaining tokens in their order, without waiting for it; or, the spawn
\* failing, having logged the failure and changed nothing else.
C6_AllowedExecSpawnsOne ==
    Ran("ExecCmd") /\ plugin_env.allow_exec_host_cmd =>
        /\ call.status = "returned"
        /\ ChannelsUntouched
        /\ routed = <<>>
        /\ guest_stdin = <<>>
        /\ subscriptions = CallBefore.subscriptions
        /\ timers = CallBefore.timers
        /\ IF CallAnswers.spawn_ok
           THEN /\ spawned = << [command |-> Head(CallPayload), args |-> Tail(CallPayload)] >>
                /\ log = <<>>
           ELSE /\ spawned = <<>>
                /\ Len(log) = 1
                /\ log[1].level = "error"

\* a plugin with the exec flag has sent the empty command line, and the
\* handler has panicked with no process spawned
C6_EmptyCommandLineAllowed ==
    /\ Ran("ExecCmd")
    /\ plugin_env.allow_exec_host_cmd
    /\ CallPayload = <<>>
    /\ call.status = "panicked"
    /\ spawned = <<>>

(***************************************************************************)
(* Timers.                                                                 *)
(***************************************************************************)
Timers == 1..Len(timers)

\* the timer threads that have sent their Update, and the Updates sent
SentTimers == {i \in Timers : timers[i].pc = "sent"}
TimerUpdates == {j \in 1..Len(to_plugin) : to_plugin[j].tag = "Update"}

\* C7: a timer thread that has ended has sent its Update, one per
\* set_timeout, to the plugin id and the client id of the caller; or the
\* sender was missing or the channel closed, and it has logged that.
C7_EveryTimeoutSendsOneUpdate ==
    /\ \A i \in Timers :
        timers[i].pc \notin {"spawned", "sleeping"} =>
            \/ timers[i].pc = "sent"
            \/ /\ timers[i].pc = "failed"
               /\ timers[i].sender = "None" \/ to_plugin_closed
               /\ timers[i].error # ""
    /\ Cardinality(TimerUpdates) = Cardinality(SentTimers)
    /\ \A j \in TimerUpdates :
        /\ to_plugin[j].plugin_id = Some(plugin_env.plugin_id)
        /\ to_plugin[j].client_id = Some(plugin_env.client_id)

\* a set_timeout of a negative delay has ended its thread in a panic, the
\* sender there and the channel open: no Update, no log line
C7_NegativeTimeoutPanicked ==
    \E i \in Timers :
        /\ timers[i].pc = "panicked"
        /\ timers[i].secs < 0
        /\ timers[i].sender = "Some"
        /\ ~to_plugin_closed
        /\ timers[i].error = ""
        /\ TimerUpdates = {}

\* C8, as the code has it: the Update of a timer carries the time measured
\* from the start of its thread to its wake-up; that time is at least the
\* Duration slept, the delay rounded to the nearest tick, so it is below the
\* delay asked for by half a tick at most; no Update is sent before that
\* Duration has passed.
C8_ElapsedAtLeastSlept ==
    \A i \in SentTimers :
        /\ timers[i].elapsed_time = timers[i].clock
        /\ timers[i].elapsed_time >= from_secs_f32(timers[i].secs).ticks
        /\ 2 * (timers[i].secs - SubTicks * timers[i].elapsed_time) <= SubTicks
        /\ \E j \in TimerUpdates : to_plugin[j].data = <<"Timer", timers[i].elapsed_time>>

\* a timer has slept a tick or more and sent its Update later than asked
C8_TimerOverslept ==
    \E i \in SentTimers :
        /\ from_secs_f32(timers[i].secs).ticks > 0
        /\ timers[i].elapsed_time > from_secs_f32(timers[i].secs).ticks

\* C8, as the spec has it: the time the Update carries is never less than
\* the delay asked for.
C8_ElapsedAtLeastRequested ==
    \A i \in SentTimers :
        SubTicks * timers[i].elapsed_time >= timers[i].secs

(***************************************************************************)
(* Decoding and dispatch.                                                  *)
(***************************************************************************)
\* C9: a call whose bytes cannot be read, decoded or converted runs no
\* handler; it leaves the registry, the plugin's env, the host channels and
\* the timers as they were, hands nothing to the router, writes nothing to
\* the guest, spawns nothing, logs one error with the name of the plugin, and
\* returns.
C9_UndecodableRunsNothing ==
    InCall /\ call.kind # "command" =>
        /\ call.status = "returned"
        /\ call.handlers = <<>>
        /\ subscriptions = CallBefore.subscriptions
        /\ plugin_env = CallBefore.plugin_env
        /\ ChannelsUntouched
        /\ timers = CallBefore.timers
        /\ routed = <<>>
        /\ guest_stdin = <<>>
        /\ spawned = <<>>
        /\ Len(log) = 1
        /\ log[1].level = "error"
        /\ log[1].msg = <<"failed to run plugin command", plugin_env.name>>

\* bytes that are no command envelope have come in with keys in the registry
\* and an instruction on the plugin channel
C9_UndecodableAfterSubscribe ==
    /\ InCall
    /\ call.kind = "not_protobuf"
    /\ CallBefore.subscriptions # {}
    /\ CallBefore.to_plugin # <<>>

\* what a call has done, by kind: actions routed, instructions to the plugin
\* channel, instructions to the screen, replies to the guest, processes
\* spawned, timer threads spawned
Effects ==
    <<Len(routed), SentToPlugin, SentToScreen, Len(guest_stdin), Len(spawned),
      TimersSpawned>>

\* the kind of effect of a variant (0: the registry alone), and how many of
\* them a command may have
EffectKind(tag) ==
    CASE tag \in ForwardVariants \cup {"NewTabsWithLayout"} -> 1
      [] tag \in {"Subscribe", "PostMessageTo", "PostMessageToPlugin"} -> 2
      [] tag \in {"SetSelectable", "SwitchTabTo", "HideSelf"} -> 3
      [] tag \in {"GetPluginIds", "GetZellijVersion"} -> 4
      [] tag = "ExecCmd" -> 5
      [] tag = "SetTimeout" -> 6
      [] OTHER -> 0

EffectLimit(command) ==
    IF command.tag = "NewTabsWithLayout"
    THEN IF ~command.payload.parses THEN 0
         ELSE IF command.payload.tabs = <<>> THEN 1
         ELSE Len(command.payload.tabs)
    ELSE 1

Reply(object) == << <<"json", object>>, "\r", "\n" >>

PluginChannelDown == plugin_env.to_plugin = "None" \/ to_plugin_closed

\* something failed inside the call: the bytes were no command, the registry
\* lock was poisoned, a host channel was closed, the guest's stdin took no
\* write, the router refused an action, the spawn failed, or the payload was
\* empty or malformed
CallFailed ==
    \/ call.kind # "command"
    \/ /\ call.kind = "command"
       /\ LET tag == call.command[1].tag
              p == call.command[1].payload
              o == CallAnswers
          IN  \/ tag \in {"Subscribe", "Unsubscribe"} /\ ~o.lock_ok
              \/ tag = "Subscribe" /\ PluginChannelDown
              \/ tag \in {"PostMessageTo", "PostMessageToPlugin"} /\ PluginChannelDown
              \/ tag = "PostMessageTo" /\ p.worker_name = None
              \/ tag = "PostMessageToPlugin" /\ p.worker_name # None
              \/ tag \in {"SwitchTabTo", "HideSelf"} /\ ~o.screen_ok
              \/ tag = "SetSelectable" /\ ~o.screen_ok /\ plugin_env.run.tab # None
              \/ tag \in {"GetPluginIds", "GetZellijVersion"} /\ ~o.stdin_ok
              \/ tag = "ExecCmd" /\ p = <<>>
              \/ tag = "ExecCmd" /\ plugin_env.allow_exec_host_cmd /\ ~o.spawn_ok
              \/ tag = "StartOrReloadPlugin" /\ p # "file:/plugin.wasm"
              \/ tag = "NewTabsWithLayout" /\ ~p.parses
              \/ tag \in {"OpenTerminal", "OpenTerminalFloating"} /\ p.path = "not a path"
              \/ tag = "SwitchToMode" /\ p = "NoSuchMode"
              \/ \E i \in 1..Len(routed) : ~o.route_oks[i]

\* C12: whatever fails inside a call, of whatever variant, the call logs the
\* failure as an error and returns to the guest.
C12_FailuresLoggedCallReturns ==
    InCall =>
        /\ call.status = "returned"
        /\ CallFailed => \E i \in 1..Len(log) : log[i].level = "error"

\* an empty payload has made a handler panic: the call has not returned and
\* has logged nothing
C12_HandlerPanicked ==
    /\ InCall
    /\ CallFailed
    /\ call.status = "panicked"
    /\ call.handlers = <<"exec_cmd">>
    /\ log = <<>>

\* what the call has changed outside the log: the registry, the host
\* channels, the timers, the actions the router has delivered, the commands
\* spawned
CallChangedNothing ==
    /\ subscriptions = CallBefore.subscriptions
    /\ ChannelsUntouched
    /\ timers = CallBefore.timers
    /\ spawned = <<>>
    /\ \A i \in 1..Len(routed) : ~CallAnswers.route_oks[i]

\* C13: a command that fails leaves the registry and every host channel as
\* they were before it; the log is the only trace of it.
C13_FailedCommandChangesNothing ==
    InCall /\ CallFailed => CallChangedNothing

\* a subscribe whose notification could not be sent has returned with its
\* keys in the registry
C13_SubscribeFailedKeysStay ==
    /\ Returned("Subscribe")
    /\ CallAnswers.lock_ok
    /\ PluginChannelDown
    /\ \E i \in 1..Len(log) : log[i].level = "error"
    /\ SentToPlugin = 0
    /\ subscriptions # CallBefore.subscriptions
    /\ subscriptions = CallBefore.subscriptions \cup CallPayload

(***************************************************************************)
(* Order.                                                                  *)
(***************************************************************************)
IsPrefix(s, t) == Len(s) <= Len(t) /\ SubSeq(t, 1, Len(s)) = s

C15_LockFreeOfSends ==
    /\ call.under_lock = 0
    /\ ~call.lock_held
    /\ call.locks = IF (Ran("Subscribe") \/ Ran("Unsubscribe")) /\ CallAnswers.lock_ok
                    THEN 1 ELSE 0

\* a subscribe has locked the registry, extended it and then sent its
\* notification
C15_SubscribeLockedThenSent ==
    /\ Returned("Subscribe")
    /\ call.locks = 1
    /\ subscriptions # CallBefore.subscriptions
    /\ SentToPlugin = 1

(***************************************************************************)
(* The capability context.                                                 *)
(***************************************************************************)
\* C16: the plugin id, the client id, the exec flag, the default shell and
\* the default layout of the calling plugin are after every command, in
\* every sequence, what they were when the plugin was instantiated.
C16_CapabilityContextFixed ==
    /\ plugin_env \in PluginEnvs
    /\ InCall => plugin_env = CallBefore.plugin_env

\* an open_terminal has handed the router a shell with the cwd of the command,
\* and the plugin's default shell has the cwd it had
C16_TerminalOpenedElsewhere ==
    /\ Returned("OpenTerminal")
    /\ plugin_env.default_shell # None
    /\ plugin_env.default_shell[1].kind = "RunCommand"
    /\ Len(routed) = 1
    /\ routed[1].action.args[2] # None
    /\ routed[1].action.args[2][1].cwd = Some(CallPayload.path)
    /\ routed[1].action.args[2][1].cwd # plugin_env.default_shell[1].cwd

\* C17: a set_timeout call returns with its timer thread spawned and not
\* yet run, whatever the delay, and leaves the timers in flight as they are;
\* no other command touches a timer, so none cancels one; every timer keeps
\* the delay, the sender and the ids it was spawned with, and the Updates on
\* the plugin channel are one per timer that has sent.
C17_TimersIndependent ==
    /\ Ran("SetTimeout") =>
        /\ call.status = "returned"
        /\ TimersSpawned = 1
        /\ SubSeq(timers, 1, Len(CallBefore.timers)) = CallBefore.timers
        /\ timers[Len(timers)].pc = "spawned"
        /\ timers[Len(timers)].secs = CallPayload
        /\ ChannelsUntouched
    /\ InCall /\ ~Ran("SetTimeout") => timers = CallBefore.timers
    /\ \A i \in Timers :
        /\ timers[i].secs \in Secs
        /\ timers[i].sender = plugin_env.to_plugin
        /\ timers[i].update_target = Some(plugin_env.plugin_id)
        /\ timers[i].client_id = plugin_env.client_id
    /\ Cardinality(TimerUpdates) = Cardinality(SentTimers)

\* a second set_timeout has returned while the timer of the first is asleep
C17_TwoTimersInFlight ==
    /\ Returned("SetTimeout")
    /\ Len(timers) = 2
    /\ timers[1].pc = "sleeping"
    /\ timers[2].pc = "spawned"

(***************************************************************************)
(* Single commands.                                                        *)
(***************************************************************************)
\* the EditFile action of a file to open
EditFile(file_to_open, floating) ==
    [tag |-> "EditFile",
     args |-> <<file_to_open.path, file_to_open.line_number, file_to_open.cwd, None, floating>>]

\* C18: OpenFile hands the router one EditFile action, not floating, with
\* the path, the line number and the cwd of the command as they came, for
\* the client of the plugin; OpenFileFloating the same action, floating;
\* neither changes the registry, sends an instruction on a host channel,
\* spawns a timer or writes to the guest.
C18_OpenFileForwardsOneEditFile ==
    \A floating \in BOOLEAN :
        Ran(IF floating THEN "OpenFileFloating" ELSE "OpenFile") =>
            /\ call.status = "returned"
            /\ Len(routed) = 1
            /\ routed[1].action = EditFile(CallPayload, floating)
            /\ routed[1].client_id = plugin_env.client_id
            /\ subscriptions = CallBefore.subscriptions
            /\ ChannelsUntouched
            /\ timers = CallBefore.timers
            /\ guest_stdin = <<>>
            /\ spawned = <<>>

\* OpenFile of /tmp/a.txt at line 5 has been handed to the router
C18_FileOpenedAtLine ==
    /\ Returned("OpenFile")
    /\ CallPayload.path = "/tmp/a.txt"
    /\ CallPayload.line_number = Some(5)
    /\ Len(routed) = 1
    /\ CallAnswers.route_oks[1]

\* C19: SetSelectable sends one SetSelectable instruction to the screen, for
\* the pane of the calling plugin, with the flag of the command and the tab
\* of the plugin, when the plugin runs in a pane whose tab is known; in any
\* other placement it sends nothing, changes nothing and logs a debug line,
\* no error.  Nothing else is touched in either case.
C19_SetSelectableForPaneWithTabOnly ==
    Ran("SetSelectable") =>
        /\ call.status = "returned"
        /\ subscriptions = CallBefore.subscriptions
        /\ to_plugin = CallBefore.to_plugin
        /\ timers = CallBefore.timers
        /\ routed = <<>> /\ guest_stdin = <<>> /\ spawned = <<>>
        /\ IF plugin_env.run.kind = "Pane" /\ plugin_env.run.tab # None
           THEN IF CallAnswers.screen_ok
                THEN to_screen = Append(CallBefore.to_screen,
                        [tag |-> "SetSelectable", pane_id |-> <<"Plugin", plugin_env.plugin_id>>,
                         data |-> <<CallPayload, plugin_env.run.tab[1]>>])
                ELSE to_screen = CallBefore.to_screen
           ELSE /\ to_screen = CallBefore.to_screen
                /\ Len(log) = 1
                /\ log[1].level = "debug"

\* SetSelectable has been ignored for a plugin in a pane whose tab is not known
C19_IgnoredWithoutTab ==
    /\ Returned("SetSelectable")
    /\ plugin_env.run.kind = "Pane"
    /\ plugin_env.run.tab = None
    /\ CallAnswers.screen_ok
    /\ SentToScreen = 0
    /\ \A i \in 1..Len(log) : log[i].level = "debug"

(***************************************************************************)
(* The guest channel.                                                      *)
(***************************************************************************)
\* a text with "\r" put after each newline that has none after it
RECURSIVE replace_bare_newlines(_)
replace_bare_newlines(text) ==
    IF text = <<>>
    THEN <<>>
    ELSE IF Head(text) = "\n" /\ (Len(text) = 1 \/ text[2] # "\r")
         THEN <<"\n", "\r">> \o replace_bare_newlines(Tail(text))
         ELSE <<Head(text)>> \o replace_bare_newlines(Tail(text))

\* the text the call found on the guest's stdout
CallText == GuestText(call.kind)

\* C20: the text a call reads from the guest is the text on the guest's
\* stdout with "\r" put after each newline that was not followed by one
\* already, and nothing else changed; what a call writes to the guest is the
\* text as given, then "\r", then a newline.
C20_OnlyBareNewlinesReplaced ==
    /\ InCall /\ call.read # None => call.read[1] = replace_bare_newlines(CallText)
    /\ \A i \in 1..Len(guest_stdin) :
        /\ Len(guest_stdin[i]) = 3
        /\ guest_stdin[i][2] = "\r"
        /\ guest_stdin[i][3] = "\n"

\* a call has read a text whose newline had its "\r" already: the text it
\* got has two of them there
C20_CarriageReturnDoubled ==
    /\ InCall
    /\ call.read # None
    /\ \E i \in 1..(Len(CallText) - 1) :
        /\ CallText[i] = "\n"
        /\ CallText[i + 1] = "\r"
        /\ SubSeq(call.read[1], i, i + 2) = <<"\n", "\r", "\r">>

(***************************************************************************)
(* Payloads that do not convert.                                           *)
(***************************************************************************)
\* the command of the call has a payload that is no url, no plugin location,
\* no layout, no input mode or no path
PayloadInvalid ==
    \/ Ran("StartOrReloadPlugin") /\ CallPayload \in {"no url", "http://plugin"}
    \/ Ran("NewTabsWithLayout") /\ ~CallPayload.parses
    \/ Ran("SwitchToMode") /\ CallPayload = "NoSuchMode"
    \/ (Ran("OpenTerminal") \/ Ran("OpenTerminalFloating")) /\ CallPayload.path = "not a path"

\* C21: a command whose payload does not convert (a StartOrReloadPlugin
\* whose url or plugin location does not parse, a NewTabsWithLayout whose
\* layout does not parse, a SwitchToMode of no input mode, an OpenTerminal
\* or OpenTerminalFloating of a path that does not convert) hands the router
\* no action, sends no instruction, leaves the registry as it was, and
\* returns.
C21_InvalidPayloadForwardsNothing ==
    PayloadInvalid =>
        /\ call.status = "returned"
        /\ routed = <<>>
        /\ ChannelsUntouched
        /\ subscriptions = CallBefore.subscriptions

\* a StartOrReloadPlugin of a url that is no plugin location has returned,
\* the router ready to take an action
C21_RemoteUrlRefused ==
    /\ Returned("StartOrReloadPlugin")
    /\ CallPayload = "http://plugin"
    /\ CallAnswers.route_oks[1]
    /\ routed = <<>>
    /\ Len(log) = 1

(***************************************************************************)
(* The registry over a sequence of commands.                               *)
(***************************************************************************)
\* the commands of `history` that name the key k
Mentions(k) == {i \in 1..Len(history) : k \in history[i].event_list}

\* the last of them
LastMention(k) == CHOOSE i \in Mentions(k) : \A j \in Mentions(k) : j <= i

\* C22, as the code has it: after any sequence of subscribe and unsubscribe
\* commands, a key is in the registry if and only if the last command that
\* took the registry lock and named it was a subscribe, or no such command
\* named it and it was in the registry at the start; the registry holds no
\* key that was neither there at the start nor subscribed.
C22_LastLockingCommandDecides ==
    /\ \A k \in EventTypes :
        k \in subscriptions <=>
            IF Mentions(k) = {}
            THEN k \in InitialSubscriptions(plugin_env)
            ELSE history[LastMention(k)].tag = "Subscribe"
    /\ \A k \in subscriptions :
        \/ k \in InitialSubscriptions(plugin_env)
        \/ \E i \in Mentions(k) : history[i].tag = "Subscribe"

\* a key was subscribed and then unsubscribed, and is not in the registry,
\* while a key no command named is there from the start
C22_SubscribedThenUnsubscribed ==
    /\ Len(history) = 2
    /\ history[1].tag = "Subscribe"
    /\ history[2].tag = "Unsubscribe"
    /\ \E k \in history[1].event_list \cap history[2].event_list : k \notin subscriptions
    /\ \E k \in subscriptions : Mentions(k) = {}

\* C22, as the spec has it, command by command: the last command that names
\* a key of the command just run is that command, so after a subscribe its
\* keys are in the registry and after an unsubscribe they are not, whatever
\* became of the command; a key it does not name is in the registry if and
\* only if it was before.
C22_LastCommandDecides ==
    /\ Ran("Subscribe") => CallPayload \subseteq subscriptions
    /\ Ran("Unsubscribe") => CallPayload \cap subscriptions = {}
    /\ Ran("Subscribe") \/ Ran("Unsubscribe") =>
        \A k \in EventTypes \ CallPayload :
            k \in subscriptions <=> k \in CallBefore.subscriptions

\* C23: when subscribe puts PluginSubscribedToEvents(K) on the plugin
\* channel every key of K is in the registry already; a subscribe that does
\* not get the registry lock sends nothing.
C23_RegistryUpdatedBeforeNotice ==
    Ran("Subscribe") =>
        /\ Len(call.registry_at_send) = SentToPlugin
        /\ \A i \in 1..SentToPlugin :
            LET sent == to_plugin[Len(CallBefore.to_plugin) + i]
            IN  /\ sent.tag = "PluginSubscribedToEvents"
                /\ sent.data = CallPayload
                /\ sent.data \subseteq call.registry_at_send[i]
        /\ ~CallAnswers.lock_ok => SentToPlugin = 0 /\ subscriptions = CallBefore.subscriptions

\* a subscribe has sent its notice for a key that was new to the registry
C23_NoticeOfNewKey ==
    /\ Returned("Subscribe")
    /\ SentToPlugin = 1
    /\ call.registry_at_send # <<>>
    /\ CallPayload \ CallBefore.subscriptions # {}

(***************************************************************************)
(* What a plugin may do to others.                                         *)
(***************************************************************************)
\* C24: a StartOrReloadPlugin command hands the router one
\* StartOrReloadPlugin action at most, and every such action a call hands
\* the router has the exec flag false, whatever the flag of the caller and
\* the url.
C24_StartedPluginCannotExec ==
    /\ Ran("StartOrReloadPlugin") =>
        /\ Len(routed) <= 1
        /\ \A i \in 1..Len(routed) : routed[i].action.tag = "StartOrReloadPlugin"
    /\ \A i \in 1..Len(routed) :
        routed[i].action.tag = "StartOrReloadPlugin" =>
            /\ routed[i].action.args[1].allow_exec_host_cmd = FALSE
            /\ routed[i].action.args[1].location = <<"File", "/plugin.wasm">>

\* a plugin that may run host commands has had the router start a plugin
C24_PrivilegedPluginStartedOne ==
    /\ Returned("StartOrReloadPlugin")
    /\ plugin_env.allow_exec_host_cmd
    /\ Len(routed) = 1
    /\ CallAnswers.route_oks[1]

\* C25: every instruction on the plugin channel (subscription notice,
\* worker message, plugin message, Timer update, crash report) has the
\* plugin id of the calling plugin, and its client id where it has one;
\* every instruction to the screen names the pane of the calling plugin
\* (SuppressPane, SetSelectable) or its client (SuppressPane, GoToTab);
\* every action handed to the router goes with the client id of the calling
\* plugin, and the focus action of ShowSelf names the calling plugin.
C25_OwnIdentityOnly ==
    /\ \A j \in 1..Len(to_plugin) :
        LET sent == to_plugin[j]
        IN  CASE sent.tag \in {"PluginSubscribedToEvents", "PostMessagesToPluginWorker",
                               "PostMessageToPlugin"} ->
                    /\ sent.plugin_id = plugin_env.plugin_id
                    /\ sent.client_id = plugin_env.client_id
              [] sent.tag = "Update" ->
                    /\ sent.plugin_id = Some(plugin_env.plugin_id)
                    /\ sent.client_id = Some(plugin_env.client_id)
              [] sent.tag = "PluginCrash" -> sent.plugin_id = plugin_env.plugin_id
              [] OTHER -> FALSE
    /\ \A j \in 1..Len(to_screen) :
        LET sent == to_screen[j]
        IN  CASE sent.tag = "SuppressPane" ->
                    /\ sent.pane_id = <<"Plugin", plugin_env.plugin_id>>
                    /\ sent.data = <<plugin_env.client_id>>
              [] sent.tag = "SetSelectable" ->
                    sent.pane_id = <<"Plugin", plugin_env.plugin_id>>
              [] sent.tag = "GoToTab" -> sent.data[2] = Some(plugin_env.client_id)
              [] OTHER -> FALSE
    /\ \A i \in 1..Len(routed) : routed[i].client_id = plugin_env.client_id
    /\ Ran("ShowSelf") =>
        \A i \in 1..Len(routed) :
            /\ routed[i].action.tag = "FocusPluginPaneWithId"
            /\ routed[i].action.args[1] = plugin_env.plugin_id

\* a ShowSelf has been routed for a plugin that has an instruction of its
\* own on the plugin channel
C25_ShownAfterInstruction ==
    /\ Returned("ShowSelf")
    /\ Len(routed) = 1
    /\ to_plugin # <<>>

(***************************************************************************)
(* Messages.                                                               *)
(***************************************************************************)
\* the call has failed and left nothing but one error in the log
FailedSendingNothing ==
    /\ call.status = "returned"
    /\ to_plugin = CallBefore.to_plugin
    /\ Len(log) = 1
    /\ log[1].level = "error"

RouterErrors == {i \in 1..Len(log) : log[i].level = "error" /\ log[i].detail = "route_action"}

\* C27: a NewTabsWithLayout whose layout parses hands the router one NewTab
\* action per tab of the layout, in the order of the tabs, each with the
\* panes and the name of its tab and the swap layouts of the layout; for a
\* layout without tabs it hands it one NewTab action, with the panes of the
\* layout's template if it has one and no name.  Each action the router
\* refuses is logged, and the actions after it are handed over all the same.
C27_OneNewTabPerTab ==
    Ran("NewTabsWithLayout") /\ CallPayload.parses =>
        LET layout == CallPayload
            swaps == <<Some(layout.swap_tiled_layouts), Some(layout.swap_floating_layouts)>>
        IN  /\ call.status = "returned"
            /\ IF layout.tabs = <<>>
               THEN /\ Len(routed) = 1
                    /\ routed[1].action.tag = "NewTab"
                    /\ routed[1].action.args =
                        IF layout.template = None
                        THEN <<None, <<>>, swaps[1], swaps[2], None>>
                        ELSE <<Some(layout.template[1].tiled), layout.template[1].floating,
                               swaps[1], swaps[2], None>>
               ELSE /\ Len(routed) = Len(layout.tabs)
                    /\ \A i \in 1..Len(routed) :
                        /\ routed[i].action.tag = "NewTab"
                        /\ routed[i].action.args =
                            <<Some(layout.tabs[i].tiled), layout.tabs[i].floating,
                              swaps[1], swaps[2], layout.tabs[i].name>>
            /\ Cardinality(RouterErrors) =
                Cardinality({i \in 1..Len(routed) : ~CallAnswers.route_oks[i]})
            /\ Len(log) = Cardinality(RouterErrors)
            /\ ChannelsUntouched

\* the router has refused the first tab of a layout of two and has been
\* handed the second
C27_SecondTabAfterRefusedFirst ==
    /\ Returned("NewTabsWithLayout")
    /\ Len(CallPayload.tabs) = 2
    /\ ~CallAnswers.route_oks[1]
    /\ CallAnswers.route_oks[2]
    /\ Len(routed) = 2
    /\ routed[2].action.args[5] = CallPayload.tabs[2].name
    /\ Len(log) = 1

====
